---- MODULE Spec2Model ----
(***************************************************************************)
(* Model of agvd.py (wmudaki/agvdPy): identifier normalisation, batch      *)
(* planning, the worker pool running process_batch, result merging and     *)
(* the run summary of process_table.                                       *)
(*                                                                         *)
(* Strings of the program that are inspected character by character (the   *)
(* variant identifiers) are sequences of one-character strings.  Cell      *)
(* values of the table are strings; NaN is an empty (missing) cell.        *)
(***************************************************************************)
EXTENDS Integers, Sequences, FiniteSets, TLC

\* ------------------------------------------------------------------ bounds
MaxRows == 2
MaxBatch == 2
MaxThreads == 2

\* ------------------------------------------------------- character classes
Digits == {"0", "1", "2", "3", "4", "5", "6", "7", "8", "9"}
LowerLetters == <<"a", "c", "g", "h", "r", "s", "t", "x", "y">>
UpperLetters == <<"A", "C", "G", "H", "R", "S", "T", "X", "Y">>
Letters == {LowerLetters[i] : i \in DOMAIN LowerLetters} \cup {UpperLetters[i] : i \in DOMAIN UpperLetters}
Whitespace == {" "}
\* \w of the re module, on the alphabet above
WordChars == Letters \cup Digits \cup {"_"}
\* the character class [_|:|\-|>|\|] of the first pattern
AnySep == {"_", "|", ":", "-", ">"}

ToLower(c) == IF \E i \in DOMAIN UpperLetters : UpperLetters[i] = c THEN LowerLetters[CHOOSE i \in DOMAIN UpperLetters : UpperLetters[i] = c] ELSE c
ToUpper(c) == IF \E i \in DOMAIN LowerLetters : LowerLetters[i] = c THEN UpperLetters[CHOOSE i \in DOMAIN LowerLetters : LowerLetters[i] = c] ELSE c
RECURSIVE Lower(_)
Lower(s) == IF s = <<>> THEN <<>> ELSE <<ToLower(Head(s))>> \o Lower(Tail(s))
RECURSIVE Upper(_)
Upper(s) == IF s = <<>> THEN <<>> ELSE <<ToUpper(Head(s))>> \o Upper(Tail(s))

\* str.strip()
RECURSIVE LStrip(_)
LStrip(s) == IF s # <<>> /\ Head(s) \in Whitespace THEN LStrip(Tail(s)) ELSE s
RECURSIVE RStrip(_)
RStrip(s) == IF s # <<>> /\ s[Len(s)] \in Whitespace THEN RStrip(SubSeq(s, 1, Len(s) - 1)) ELSE s
Strip(s) == RStrip(LStrip(s))

\* str.replace("chr", ""): every non-overlapping occurrence, left to right
RECURSIVE ReplaceChr(_)
ReplaceChr(s) ==
    IF s = <<>> THEN <<>>
    ELSE IF Len(s) >= 3 /\ SubSeq(s, 1, 3) = <<"c", "h", "r">> THEN ReplaceChr(SubSeq(s, 4, Len(s)))
    ELSE <<Head(s)>> \o ReplaceChr(Tail(s))

AllIn(s, lo, hi, class) == \A i \in lo..hi : s[i] \in class

\* re.match(r"^rs\d+$", raw_id, re.IGNORECASE)
IsRsID(s) == /\ Len(s) >= 3
             /\ ToLower(s[1]) = "r"
             /\ ToLower(s[2]) = "s"
             /\ AllIn(s, 3, Len(s), Digits)

\* The three patterns, each (\w+) sep1 (\d+) sep2 (\w+) sep3 (\w+), by their separators.
patterns == << <<AnySep, AnySep, AnySep>>, <<{":"}, {":"}, {":"}>>, <<{":"}, {":"}, {">"}>> >>

\* End of the longest run of \w starting at position i (i - 1 when there is none).
RECURSIVE WordRunEnd(_, _)
WordRunEnd(s, i) == IF i <= Len(s) /\ s[i] \in WordChars THEN WordRunEnd(s, i + 1) ELSE i - 1

\* The ways pattern p matches a prefix of s: <<a, b, c>> are the last positions of
\* the groups chr, pos and ref; alt is greedy and runs to the end of its word.
Splits(s, p) ==
    LET n == Len(s)
        ChrEnds == {a \in 1..n : AllIn(s, 1, a, WordChars) /\ a + 1 <= n /\ s[a + 1] \in p[1]}
        PosEnds(a) == {b \in (a + 2)..n : AllIn(s, a + 2, b, Digits) /\ b + 1 <= n /\ s[b + 1] \in p[2]}
        RefEnds(b) == {c \in (b + 2)..n : AllIn(s, b + 2, c, WordChars) /\ c + 1 <= n /\ s[c + 1] \in p[3]
                                          /\ c + 2 <= n /\ s[c + 2] \in WordChars}
    IN UNION {UNION {{<<a, b, c>> : c \in RefEnds(b)} : b \in PosEnds(a)} : a \in ChrEnds}

\* Backtracking order of greedy quantifiers: the longest chr, then the longest pos,
\* then the longest ref.
Before(t, u) == \/ t[1] > u[1]
                \/ t[1] = u[1] /\ t[2] > u[2]
                \/ t[1] = u[1] /\ t[2] = u[2] /\ t[3] >= u[3]
FirstSplit(s, p) == CHOOSE t \in Splits(s, p) : \A u \in Splits(s, p) : Before(t, u)

\* f"{chr}_{pos}_{ref}_{alt}".upper()
StdId(s, t) == Upper(SubSeq(s, 1, t[1]) \o <<"_">> \o SubSeq(s, t[1] + 2, t[2]) \o <<"_">>
                     \o SubSeq(s, t[2] + 2, t[3]) \o <<"_">> \o SubSeq(s, t[3] + 2, WordRunEnd(s, t[3] + 2)))

Matching(s) == {k \in DOMAIN patterns : Splits(s, patterns[k]) # {}}
FirstMatching(s) == CHOOSE k \in Matching(s) : \A m \in Matching(s) : k <= m

\* standardize_variant_id: ok = FALSE stands for the ValueError.
standardize_variant_id(raw_id) ==
    LET stripped == Strip(raw_id)
        lowered == ReplaceChr(Lower(stripped))
    IN IF IsRsID(stripped) THEN [ok |-> TRUE, std_id |-> stripped, id_type |-> "rsID"]
       ELSE IF Matching(lowered) # {}
            THEN [ok |-> TRUE, std_id |-> StdId(lowered, FirstSplit(lowered, patterns[FirstMatching(lowered)])), id_type |-> "variantID"]
            ELSE [ok |-> FALSE, std_id |-> <<>>, id_type |-> "None"]

\* ------------------------------------------------------------ input tables
\* Cells of the identifier column, astype(str).
TokRs == <<" ", "R", "s", "1">>
TokColon == <<"c", "h", "r", "1", ":", "2", ":", "A", ">", "T">>
TokUnderscore == <<"1", "_", "2", "_", "t", "_", "a">>
TokGarbage == <<"x", "-", "y">>
RawIds == {TokRs, TokColon, TokUnderscore, TokGarbage}

\* The columns of the input file: an identifier column and four coordinate columns.
FileColumns == {"id", "chr", "pos", "ref", "alt"}
RowRs == [id |-> TokRs, chr |-> <<"c", "h", "r", "1">>, pos |-> <<"2">>, ref |-> <<"A">>, alt |-> <<"T">>]
RowColon == [id |-> TokColon, chr |-> <<"1">>, pos |-> <<"0", "2">>, ref |-> <<"t">>, alt |-> <<"a">>]
RowUnderscore == [id |-> TokUnderscore, chr |-> <<"1">>, pos |-> <<"2">>, ref |-> <<"A">>, alt |-> <<"-">>]
RowGarbage == [id |-> TokGarbage, chr |-> <<"1">>, pos |-> <<"x">>, ref |-> <<"A">>, alt |-> <<"T">>]
FileRows == {RowRs, RowColon, RowUnderscore, RowGarbage}

RECURSIVE SeqsUpTo(_, _)
SeqsUpTo(S, n) == IF n = 0 THEN {<<>>} ELSE LET shorter == SeqsUpTo(S, n - 1) IN shorter \cup {Append(q, x) : q \in {r \in shorter : Len(r) = n - 1}, x \in S}
Tables == SeqsUpTo(FileRows, MaxRows)

\* str.lstrip('chr'): the leading characters c, h and r
RECURSIVE LStripChr(_)
LStripChr(s) == IF s # <<>> /\ Head(s) \in {"c", "h", "r"} THEN LStripChr(Tail(s)) ELSE s
\* int(x) of a cell, then its str() inside the f-string: surrounding whitespace is
\* dropped, a sign may lead, single underscores may separate digits; ok = FALSE
\* stands for the ValueError; digits is the decimal form of the number, without
\* leading zeros and with - for a negative one.
RECURSIVE DropZeros(_)
DropZeros(s) == IF Len(s) > 1 /\ Head(s) = "0" THEN DropZeros(Tail(s)) ELSE s
RECURSIVE DropUnderscores(_)
DropUnderscores(s) == IF s = <<>> THEN <<>> ELSE IF Head(s) = "_" THEN DropUnderscores(Tail(s)) ELSE <<Head(s)>> \o DropUnderscores(Tail(s))
IntOf(s) ==
    LET t == Strip(s)
        signed == t # <<>> /\ Head(t) \in {"+", "-"}
        body == IF signed THEN Tail(t) ELSE t
        magnitude == DropZeros(DropUnderscores(body))
    IN [ok |-> /\ body # <<>>
               /\ AllIn(body, 1, Len(body), Digits \cup {"_"})
               /\ body[1] \in Digits /\ body[Len(body)] \in Digits
               /\ \A n \in 1..(Len(body) - 1) : ~(body[n] = "_" /\ body[n + 1] = "_"),
        digits |-> IF signed /\ Head(t) = "-" /\ magnitude # <<"0">> THEN <<"-">> \o magnitude ELSE magnitude]

\* construct_variant_id: ok = FALSE when int(row[pos_col]) raises.
construct_variant_id(row, chr_col, pos_col, ref_col, alt_col) ==
    [ok |-> IntOf(row[pos_col]).ok,
     id |-> LStripChr(row[chr_col]) \o <<"_">> \o IntOf(row[pos_col]).digits \o <<"_">> \o row[ref_col] \o <<"_">> \o row[alt_col]]

\* standardize_variant_id on the cells an identifier column can hold
ConstructedIds == {construct_variant_id(row, "chr", "pos", "ref", "alt").id : row \in {w \in FileRows : construct_variant_id(w, "chr", "pos", "ref", "alt").ok}}
StandardizedIds == [t \in RawIds \cup ConstructedIds |-> standardize_variant_id(t)]

\* ------------------------------------------------------------- table cells
NaN == "NaN"
RequestedThreshold == "0.01"
ClusterNames == {"EA"}
\* f"{cname}_MAF"
ClusterColumn(cname) == IF cname = "EA" THEN "EA_MAF" ELSE "OTHER_MAF"
EmptyRow == [THRESHOLD |-> NaN, AGVDCUTOFF |-> NaN, African_MAF |-> NaN, MAF |-> [c \in ClusterNames |-> NaN]]
HasColumn(cols, col) == \E k \in DOMAIN cols : cols[k] = col
\* A new column goes to the end of the table's columns.
WithColumn(cols, col) == IF HasColumn(cols, col) THEN cols ELSE Append(cols, col)
\* The cell of row r in column col, and the table with that cell set.
CellOf(table, r, col) ==
    IF col = "THRESHOLD" THEN table[r].THRESHOLD
    ELSE IF col = "AGVDCUTOFF" THEN table[r].AGVDCUTOFF
    ELSE IF col = "African_MAF" THEN table[r].African_MAF
    ELSE table[r].MAF[CHOOSE c \in ClusterNames : ClusterColumn(c) = col]
SetCell(table, r, col, value) ==
    IF col = "THRESHOLD" THEN [table EXCEPT ![r].THRESHOLD = value]
    ELSE IF col = "AGVDCUTOFF" THEN [table EXCEPT ![r].AGVDCUTOFF = value]
    ELSE IF col = "African_MAF" THEN [table EXCEPT ![r].African_MAF = value]
    ELSE [table EXCEPT ![r].MAF[CHOOSE c \in ClusterNames : ClusterColumn(c) = col] = value]
\* df[col] = NaN: the whole column is (re)placed by an empty one.
FillColumn(table, col) == [r \in DOMAIN table |-> SetCell(table, r, col, NaN)[r]]

\* ---------------------------------------------------------- remote service
\* dict.get(key, default)
Get(rec, key, default) == IF key \in DOMAIN rec THEN rec[key] ELSE default

\* A record of the response for identifier x: well formed, or with a cluster entry
\* that lacks its name.
GoodRecord(x, id_type) ==
    IF id_type = "rsID"
    THEN [rsID |-> x, mafThreshold |-> "0.2", agvdThresholdStatus |-> "PASS", usedThreshold |-> "0.05", clusters |-> <<[name |-> "EA", maf |-> "0.3"]>>]
    ELSE [variantID |-> x, mafThreshold |-> "0.2", agvdThresholdStatus |-> "PASS", usedThreshold |-> "0.05", clusters |-> <<[name |-> "EA", maf |-> "0.3"]>>]
BadRecord(x, id_type) ==
    IF id_type = "rsID"
    THEN [rsID |-> x, mafThreshold |-> "0.2", agvdThresholdStatus |-> "PASS", usedThreshold |-> "0.05", clusters |-> <<[maf |-> "0.3"]>>]
    ELSE [variantID |-> x, mafThreshold |-> "0.2", agvdThresholdStatus |-> "PASS", usedThreshold |-> "0.05", clusters |-> <<[maf |-> "0.3"]>>]

\* A record without the optional keys agvdThresholdStatus and clusters.
BareRecord(x, id_type) ==
    IF id_type = "rsID"
    THEN [rsID |-> x, mafThreshold |-> "0.1", usedThreshold |-> "0.05"]
    ELSE [variantID |-> x, mafThreshold |-> "0.1", usedThreshold |-> "0.05"]

RECURSIVE Distinct(_)
Distinct(s) == IF s = <<>> THEN <<>> ELSE LET d == Distinct(SubSeq(s, 1, Len(s) - 1)) IN IF \E k \in DOMAIN d : d[k] = s[Len(s)] THEN d ELSE Append(d, s[Len(s)])

RECURSIVE RecordsFor(_, _, _)
RecordsFor(d, id_type, choice) ==
    IF d = <<>> THEN <<>>
    ELSE LET rest == RecordsFor(SubSeq(d, 1, Len(d) - 1), id_type, choice)
             x == d[Len(d)]
         IN IF choice[Len(d)] = "good" THEN Append(rest, GoodRecord(x, id_type))
            ELSE IF choice[Len(d)] = "bad" THEN Append(rest, BadRecord(x, id_type))
            ELSE IF choice[Len(d)] = "bare" THEN Append(rest, BareRecord(x, id_type))
            ELSE rest
\* The record lists the service may return for a batch: for each identifier of the
\* batch no record, a well-formed record, one without the optional keys or a
\* malformed one.
Responses(batch, id_type) ==
    LET d == Distinct(batch)
    IN {RecordsFor(d, id_type, choice) : choice \in [1..Len(d) -> {"absent", "good", "bare", "bad"}]}

\* ------------------------------------------------------------------- state
VARIABLES
    args,           \* BATCH, THRESHOLD, dry_run, cache, threads, COLUMN, CHR, POS, REF, ALT
    infile,         \* the rows of the input file
    ids,            \* the identifier column, one raw token per row
    std_table,      \* standardize_variant_id tabulated on the tokens (never changes)
    df,             \* the table: row index (from 0) -> appended cells
    columns,        \* the appended columns, in creation order
    id_batches,     \* id_type -> normalised identifiers
    row_map,        \* id_type -> their row indices
    main,           \* position of process_table
    kind,           \* dispatch loop: index into KindOrder
    i,              \* dispatch loop: range(0, len(ids_batch), BATCH)
    futures,        \* the submitted process_batch tasks, in submission order
    cache,          \* lru_cache of submit_query_cached: key -> results
    requests,       \* requests received by the remote endpoint
    total_success,
    total_fail,
    output,         \* the output file: the table as written
    summary         \* the summary file

vars == <<args, infile, ids, std_table, df, columns, id_batches, row_map, main, kind, i, futures, cache, requests, total_success, total_fail, output, summary>>

\* success / total as the fraction <<success, total>>
generate_summary(total, success, fail) ==
    [total |-> total, successful |-> success, failed |-> fail, success_rate |-> IF total > 0 THEN <<success, total>> ELSE <<0, 1>>]

KindOrder == <<"variantID", "rsID">>
NotWritten == [written |-> FALSE, table |-> <<>>, columns |-> <<>>]
NoSummary == [written |-> FALSE, report |-> generate_summary(0, 0, 0)]

\* The ways the identifier source is named on the command line: --COLUMN, the four
\* coordinate options, an incomplete set of them, or a column the file does not have.
ColumnOptions == {
    [COLUMN |-> "id", CHR |-> "None", POS |-> "None", REF |-> "None", ALT |-> "None"],
    [COLUMN |-> "None", CHR |-> "chr", POS |-> "pos", REF |-> "ref", ALT |-> "alt"],
    [COLUMN |-> "None", CHR |-> "chr", POS |-> "None", REF |-> "ref", ALT |-> "alt"],
    [COLUMN |-> "name", CHR |-> "None", POS |-> "None", REF |-> "None", ALT |-> "None"]}
Arguments ==
    {[BATCH |-> b, THRESHOLD |-> RequestedThreshold, dry_run |-> d, cache |-> c, threads |-> t,
      COLUMN |-> o.COLUMN, CHR |-> o.CHR, POS |-> o.POS, REF |-> o.REF, ALT |-> o.ALT] :
        b \in (-1)..MaxBatch, d \in BOOLEAN, c \in BOOLEAN, t \in 0..MaxThreads, o \in ColumnOptions}

\* The state when process_table has read one of the given files.
InitWith(files) ==
    /\ infile \in files
    /\ ids = <<>>
    /\ std_table = StandardizedIds
    /\ args \in Arguments
    /\ df = [r \in 0..(Len(infile) - 1) |-> EmptyRow]
    /\ columns = <<>>
    /\ id_batches = [t \in {"variantID", "rsID"} |-> <<>>]
    /\ row_map = [t \in {"variantID", "rsID"} |-> <<>>]
    /\ main = "read"
    /\ kind = 1
    /\ i = 0
    /\ futures = <<>>
    /\ cache = {}
    /\ requests = {}
    /\ total_success = 0
    /\ total_fail = 0
    /\ output = NotWritten
    /\ summary = NoSummary
Init == InitWith(Tables)

\* ------------------------------------------------------- identifier column
\* Lines 146-157: the identifier column is --COLUMN, or is built from the four
\* coordinate columns and appended to the table as __variant_id__; the run ends
\* with a ValueError when neither is named, when --COLUMN is not a column of the
\* file, or when a position is not an integer.  On a file without rows df.apply
\* returns a frame instead of a column, and the assignment at line 150 raises.
ReadTable ==
    /\ main = "read"
    /\ IF args.COLUMN = "None" /\ \E c \in {args.CHR, args.POS, args.REF, args.ALT} : c = "None"
       THEN main' = "crashed" /\ UNCHANGED <<ids, columns>>
       ELSE IF args.COLUMN = "None"
       THEN LET built == [r \in 1..Len(infile) |-> construct_variant_id(infile[r], args.CHR, args.POS, args.REF, args.ALT)]
            IN IF infile # <<>> /\ \A r \in 1..Len(infile) : built[r].ok
               THEN /\ ids' = [r \in 1..Len(infile) |-> built[r].id]
                    /\ columns' = Append(columns, "__variant_id__")
                    /\ main' = "normalize"
               ELSE main' = "crashed" /\ UNCHANGED <<ids, columns>>
       ELSE IF args.COLUMN \notin FileColumns
       THEN main' = "crashed" /\ UNCHANGED <<ids, columns>>
       ELSE /\ ids' = [r \in 1..Len(infile) |-> infile[r][args.COLUMN]]
            /\ main' = "normalize"
            /\ UNCHANGED columns
    /\ UNCHANGED <<args, infile, std_table, df, id_batches, row_map, kind, i, futures, cache, requests, total_success, total_fail, output, summary>>

\* ---------------------------------------------------------- batch planning
\* Lines 161-167 for the rows 0..n-1: the identifiers and rows of each kind and the
\* table with the INVALID rows marked.
\* Mutant of OnInvalid: the row is marked but its raw token is queued all the same.
OnInvalidMut(plan, idx, raw) ==
    [plan EXCEPT !.df[idx].AGVDCUTOFF = "INVALID", !.invalid = TRUE,
                 !.id_batches["variantID"] = Append(@, raw), !.row_map["variantID"] = Append(@, idx)]
\* except ValueError, lines 166-167
OnInvalid(plan, idx, raw) == [plan EXCEPT !.df[idx].AGVDCUTOFF = "INVALID", !.invalid = TRUE]

RECURSIVE NormalizeRows(_, _, _)
NormalizeRows(tokens, n, table) ==
    IF n = 0 THEN [id_batches |-> [t \in {"variantID", "rsID"} |-> <<>>], row_map |-> [t \in {"variantID", "rsID"} |-> <<>>], df |-> table, invalid |-> FALSE]
    ELSE LET prev == NormalizeRows(tokens, n - 1, table)
             idx == n - 1
             std == std_table[tokens[n]]
         IN IF std.ok
            THEN [prev EXCEPT !.id_batches[std.id_type] = Append(@, std.std_id), !.row_map[std.id_type] = Append(@, idx)]
            ELSE OnInvalid(prev, idx, tokens[n])

Normalize ==
    /\ main = "normalize"
    /\ LET plan == NormalizeRows(ids, Len(ids), df)
       IN /\ id_batches' = plan.id_batches
          /\ row_map' = plan.row_map
          /\ df' = plan.df
          /\ columns' = IF plan.invalid THEN WithColumn(columns, "AGVDCUTOFF") ELSE columns
    /\ main' = "dispatch"
    /\ UNCHANGED <<args, infile, ids, std_table, kind, i, futures, cache, requests, total_success, total_fail, output, summary>>

\* Mutant of Slice: the end of the slice is taken inclusive.
SliceMut(list, lo, hi) == SubSeq(list, lo + 1, IF hi + 1 < Len(list) THEN hi + 1 ELSE Len(list))
\* list[lo:hi] for 0 <= lo <= hi
Slice(list, lo, hi) == SubSeq(list, lo + 1, IF hi < Len(list) THEN hi ELSE Len(list))

\* A task: its arguments, its position (pc; row j and assignment k of the loop body,
\* from 0; creating when the assignment found its column missing), and its locals.
NewFuture(batch, batch_rows, id_type) ==
    [batch |-> batch, batch_rows |-> batch_rows, id_type |-> id_type, pc |-> "queued", j |-> 0, k |-> 0, creating |-> FALSE,
     results |-> <<>>, exc |-> "None", local_success |-> 0, local_fail |-> 0, yielded |-> FALSE]

\* ThreadPoolExecutor(max_workers=args.threads) raises ValueError for a number of
\* workers <= 0: the run ends before anything is submitted.
PoolRaises ==
    /\ main = "dispatch"
    /\ args.threads <= 0
    /\ main' = "crashed"
    /\ UNCHANGED <<args, infile, ids, std_table, df, columns, id_batches, row_map, kind, i, futures, cache, requests, total_success, total_fail, output, summary>>

\* range(0, len(ids_batch), 0) raises ValueError inside the with block; nothing was
\* submitted, so the executor shuts down at once and the run ends with the error.
RangeRaises ==
    /\ main = "dispatch"
    /\ args.threads > 0
    /\ args.BATCH = 0
    /\ main' = "crashed"
    /\ UNCHANGED <<args, infile, ids, std_table, df, columns, id_batches, row_map, kind, i, futures, cache, requests, total_success, total_fail, output, summary>>

\* One pass of the loop at lines 201-204.
SubmitBatch ==
    /\ main = "dispatch"
    /\ args.threads > 0
    /\ kind <= Len(KindOrder)
    /\ args.BATCH > 0
    /\ i < Len(id_batches[KindOrder[kind]])
    /\ LET id_type == KindOrder[kind]
           batch == Slice(id_batches[id_type], i, i + args.BATCH)
           batch_rows == Slice(row_map[id_type], i, i + args.BATCH)
       IN futures' = Append(futures, NewFuture(batch, batch_rows, id_type))
    /\ i' = i + args.BATCH
    /\ UNCHANGED <<args, infile, ids, std_table, df, columns, id_batches, row_map, main, kind, cache, requests, total_success, total_fail, output, summary>>

\* The range of one kind is exhausted (at once when BATCH is negative).
NextKind ==
    /\ main = "dispatch"
    /\ args.threads > 0
    /\ kind <= Len(KindOrder)
    /\ args.BATCH # 0
    /\ (args.BATCH < 0 \/ i >= Len(id_batches[KindOrder[kind]]))
    /\ kind' = kind + 1
    /\ i' = 0
    /\ main' = IF kind = Len(KindOrder) THEN "collect" ELSE main
    /\ UNCHANGED <<args, infile, ids, std_table, df, columns, id_batches, row_map, futures, cache, requests, total_success, total_fail, output, summary>>

\* ----------------------------------------------------------- result merger
\* {c['name']: c['maf'] for c in clusters}: "KeyError" when an entry lacks a key
ClustersWellFormed(clusters) == \A k \in DOMAIN clusters : {"name", "maf"} \subseteq DOMAIN clusters[k]
ClusterDict(clusters) ==
    LET names == {clusters[k].name : k \in DOMAIN clusters}
        last(n) == CHOOSE k \in DOMAIN clusters : clusters[k].name = n /\ \A m \in DOMAIN clusters : clusters[m].name = n => m <= k
    IN [n \in names |-> clusters[last(n)].maf]
\* The keys of that dict in insertion order.
RECURSIVE ClusterKeys(_)
ClusterKeys(clusters) ==
    IF clusters = <<>> THEN <<>>
    ELSE LET before == ClusterKeys(SubSeq(clusters, 1, Len(clusters) - 1))
             n == clusters[Len(clusters)].name
         IN IF \E k \in DOMAIN before : before[k] = n THEN before ELSE Append(before, n)

\* result.get('variantID') == variant_id or result.get('rsID') == variant_id: a
\* missing key gives None, which equals no identifier.
Matches(result, variant_id) ==
    \/ "variantID" \in DOMAIN result /\ result.variantID = variant_id
    \/ "rsID" \in DOMAIN result /\ result.rsID = variant_id

\* get_result_info: the first matching record decides; raised stands for the
\* exception of the cluster comprehension; keys is the iteration order of clusters.
get_result_info(variant_id, results) ==
    IF \E k \in DOMAIN results : Matches(results[k], variant_id)
    THEN LET first == CHOOSE k \in DOMAIN results : Matches(results[k], variant_id) /\ \A m \in 1..(k - 1) : ~Matches(results[m], variant_id)
             result == results[first]
             clusters == Get(result, "clusters", <<>>)
         IN IF ClustersWellFormed(clusters)
            THEN [raised |-> FALSE,
                  mafThreshold |-> Get(result, "mafThreshold", NaN),
                  status |-> Get(result, "agvdThresholdStatus", "UNKNOWN"),
                  usedThreshold |-> Get(result, "usedThreshold", NaN),
                  clusters |-> ClusterDict(clusters),
                  keys |-> ClusterKeys(clusters)]
            ELSE [raised |-> TRUE, mafThreshold |-> NaN, status |-> NaN, usedThreshold |-> NaN, clusters |-> <<>>, keys |-> <<>>]
    ELSE [raised |-> FALSE, mafThreshold |-> NaN, status |-> "NO MATCH", usedThreshold |-> NaN, clusters |-> <<>>, keys |-> <<>>]

\* row_idx = batch_rows[j], line 179 (j counts from 0)
RowIdx(batch_rows, j) == batch_rows[j + 1]
\* for row_idx in batch_rows, line 189 (k counts from 0)
ErrorRowIdx(batch_rows, k) == batch_rows[k + 1]

\* The assignments df.loc[row_idx, column] = value of one pass of the merge loop
\* (lines 181-185) and of the error loop (lines 190-192), in program order.
MergeAssignments(info) ==
    <<[column |-> "THRESHOLD", value |-> info.usedThreshold],
      [column |-> "AGVDCUTOFF", value |-> info.status],
      [column |-> "African_MAF", value |-> info.mafThreshold]>>
    \o [n \in 1..Len(info.keys) |-> [column |-> ClusterColumn(info.keys[n]), value |-> info.clusters[info.keys[n]]]]
ErrorAssignments(threshold) ==
    <<[column |-> "THRESHOLD", value |-> threshold],
      [column |-> "AGVDCUTOFF", value |-> "ERROR"],
      [column |-> "African_MAF", value |-> NaN]>>

\* lines 181-185 run without interruption
WriteMerged(table, row_idx, info) ==
    [table EXCEPT ![row_idx] = [THRESHOLD |-> info.usedThreshold,
                                AGVDCUTOFF |-> info.status,
                                African_MAF |-> info.mafThreshold,
                                MAF |-> [c \in ClusterNames |-> IF c \in DOMAIN info.clusters THEN info.clusters[c] ELSE @.MAF[c]]]]
\* lines 190-192 run without interruption
WriteError(table, row_idx, threshold) ==
    [table EXCEPT ![row_idx].THRESHOLD = threshold, ![row_idx].AGVDCUTOFF = "ERROR", ![row_idx].African_MAF = NaN]

\* ------------------------------------------------------------- worker pool
Running(f) == f.pc \in {"taken", "waiting", "merge", "except"}
\* A worker thread is idle and b is the head of the work queue.
CanStart(b) ==
    /\ b \in DOMAIN futures
    /\ futures[b].pc = "queued"
    /\ \A c \in 1..(b - 1) : futures[c].pc # "queued"
    /\ Cardinality({c \in DOMAIN futures : Running(futures[c])}) < args.threads

\* A worker takes the task at the head of the queue and calls process_batch; from
\* here on the task runs interleaved with the other workers and the main thread.
RunTask(b) ==
    /\ CanStart(b)
    /\ futures' = [futures EXCEPT ![b].pc = "taken"]
    /\ UNCHANGED <<args, infile, ids, std_table, df, columns, id_batches, row_map, main, kind, i, cache, requests, total_success, total_fail, output, summary>>

\* Mutant of DryRunShortCircuit: the flag is ignored on the cached path.
DryRunShortCircuitMut(a) == a.dry_run /\ ~a.cache
\* if args.dry_run, line 174
DryRunShortCircuit(a) == a.dry_run

CacheKey(f) == <<f.id_type, f.batch>>
Cached(key) == {e \in cache : e.key = key}

\* Dry run: the task returns (0, 0) at once.
StartDryRun(b) ==
    /\ b \in DOMAIN futures
    /\ futures[b].pc = "taken"
    /\ DryRunShortCircuit(args)
    /\ futures' = [futures EXCEPT ![b].pc = "done"]
    /\ UNCHANGED <<args, infile, ids, std_table, df, columns, id_batches, row_map, main, kind, i, cache, requests, total_success, total_fail, output, summary>>

\* submit_query_cached finds the key in the lru_cache: no request is made.
StartCacheHit(b) ==
    /\ b \in DOMAIN futures
    /\ futures[b].pc = "taken"
    /\ ~DryRunShortCircuit(args)
    /\ args.cache
    /\ Cached(CacheKey(futures[b])) # {}
    /\ futures' = [futures EXCEPT ![b].pc = "merge", ![b].results = (CHOOSE e \in Cached(CacheKey(futures[b])) : TRUE).results]
    /\ UNCHANGED <<args, infile, ids, std_table, df, columns, id_batches, row_map, main, kind, i, cache, requests, total_success, total_fail, output, summary>>

\* submit_query posts the request (directly, or on a cache miss).
StartRequest(b) ==
    /\ b \in DOMAIN futures
    /\ futures[b].pc = "taken"
    /\ ~DryRunShortCircuit(args)
    /\ ~(args.cache /\ Cached(CacheKey(futures[b])) # {})
    /\ futures' = [futures EXCEPT ![b].pc = "waiting"]
    /\ requests' = requests \cup {[id_type |-> futures[b].id_type, identifiers |-> futures[b].batch, threshold |-> args.THRESHOLD]}
    /\ UNCHANGED <<args, infile, ids, std_table, df, columns, id_batches, row_map, main, kind, i, cache, total_success, total_fail, output, summary>>

\* The endpoint answers 200 with a record list; lru_cache stores it unless the key
\* was stored meanwhile.
Respond(b) ==
    /\ b \in DOMAIN futures
    /\ futures[b].pc = "waiting"
    /\ \E r \in Responses(futures[b].batch, futures[b].id_type) :
        /\ futures' = [futures EXCEPT ![b].pc = "merge", ![b].results = r]
        /\ cache' = IF args.cache /\ Cached(CacheKey(futures[b])) = {} THEN cache \cup {[key |-> CacheKey(futures[b]), results |-> r]} ELSE cache
    /\ UNCHANGED <<args, infile, ids, std_table, df, columns, id_batches, row_map, main, kind, i, requests, total_success, total_fail, output, summary>>

\* The call raises (transport failure or a status other than 200): nothing is cached.
Raise(b) ==
    /\ b \in DOMAIN futures
    /\ futures[b].pc = "waiting"
    /\ futures' = [futures EXCEPT ![b].pc = "except", ![b].exc = "AgvdException", ![b].j = 0, ![b].k = 0]
    /\ UNCHANGED <<args, infile, ids, std_table, df, columns, id_batches, row_map, main, kind, i, cache, requests, total_success, total_fail, output, summary>>

\* The task after assignment f.k of a loop pass with n assignments: the next
\* assignment, or the counter, the next pass and the return after the last row.
AfterAssignment(f, n) ==
    IF f.k + 1 < n THEN [f EXCEPT !.k = @ + 1, !.creating = FALSE]
    ELSE [f EXCEPT !.k = 0, !.creating = FALSE, !.j = @ + 1,
                   !.local_success = IF f.pc = "merge" THEN @ + 1 ELSE @,
                   !.local_fail = IF f.pc = "except" THEN @ + 1 ELSE @,
                   !.pc = IF f.j + 1 = Len(f.batch_rows) THEN "done" ELSE @]

\* The assignments of the loop pass the task is in, and the row they write.
Assignments(f) ==
    IF f.pc = "merge" THEN MergeAssignments(get_result_info(f.batch[f.j + 1], f.results))
    ELSE ErrorAssignments(args.THRESHOLD)
TargetRow(f) == IF f.pc = "merge" THEN RowIdx(f.batch_rows, f.j) ELSE ErrorRowIdx(f.batch_rows, f.j)

\* df.loc[row_idx, column] = value, as pandas runs it: the column is looked up; when
\* the table has it the cell is set in place, otherwise the assignment goes on to
\* create the column (CreateColumn).
Assign(b) ==
    LET f == futures[b]
        a == Assignments(f)[f.k + 1]
    IN IF HasColumn(columns, a.column)
       THEN /\ df' = SetCell(df, TargetRow(f), a.column, a.value)
            /\ futures' = [futures EXCEPT ![b] = AfterAssignment(f, Len(Assignments(f)))]
            /\ UNCHANGED columns
       ELSE /\ futures' = [futures EXCEPT ![b].creating = TRUE]
            /\ UNCHANGED <<df, columns>>

\* One statement of the loop at lines 178-186: get_result_info raises at the start
\* of a pass, or the next assignment of the pass is made.
MergeRow(b) ==
    /\ b \in DOMAIN futures
    /\ futures[b].pc = "merge"
    /\ ~futures[b].creating
    /\ IF get_result_info(futures[b].batch[futures[b].j + 1], futures[b].results).raised
       THEN /\ futures' = [futures EXCEPT ![b].pc = "except", ![b].exc = "KeyError", ![b].j = 0, ![b].k = 0]
            /\ UNCHANGED <<df, columns>>
       ELSE Assign(b)
    /\ UNCHANGED <<args, infile, ids, std_table, id_batches, row_map, main, kind, i, cache, requests, total_success, total_fail, output, summary>>

\* One statement of the loop at lines 189-193.
ErrorRow(b) ==
    /\ b \in DOMAIN futures
    /\ futures[b].pc = "except"
    /\ ~futures[b].creating
    /\ Assign(b)
    /\ UNCHANGED <<args, infile, ids, std_table, id_batches, row_map, main, kind, i, cache, requests, total_success, total_fail, output, summary>>

\* The rest of an assignment that found its column missing: pandas sets
\* df[column] = NaN, which appends the column or, when another thread created it
\* meanwhile, replaces it and the cells that thread wrote, and then sets the cell.
CreateColumn(b) ==
    /\ b \in DOMAIN futures
    /\ futures[b].pc \in {"merge", "except"}
    /\ futures[b].creating
    /\ LET f == futures[b]
           a == Assignments(f)[f.k + 1]
       IN /\ df' = SetCell(FillColumn(df, a.column), TargetRow(f), a.column, a.value)
          /\ columns' = WithColumn(columns, a.column)
          /\ futures' = [futures EXCEPT ![b] = AfterAssignment(f, Len(Assignments(f)))]
    /\ UNCHANGED <<args, infile, ids, std_table, id_batches, row_map, main, kind, i, cache, requests, total_success, total_fail, output, summary>>

\* ------------------------------------------------------------ orchestrator
\* as_completed yields a finished future; lines 206-209.
Collect(b) ==
    /\ main = "collect"
    /\ b \in DOMAIN futures
    /\ futures[b].pc = "done"
    /\ ~futures[b].yielded
    /\ total_success' = total_success + futures[b].local_success
    /\ total_fail' = total_fail + futures[b].local_fail
    /\ futures' = [futures EXCEPT ![b].yielded = TRUE]
    /\ UNCHANGED <<args, infile, ids, std_table, df, columns, id_batches, row_map, main, kind, i, cache, requests, output, summary>>

\* Mutant of AllCompleted: only the tasks already finished are waited for.
AllCompletedMut(fs) == \A b \in DOMAIN fs : fs[b].pc = "done" => fs[b].yielded
\* The as_completed loop ends when every future was yielded.
AllCompleted(fs) == \A b \in DOMAIN fs : fs[b].yielded

\* lines 211-222
WriteOutput ==
    /\ main = "collect"
    /\ AllCompleted(futures)
    /\ ~args.dry_run
    /\ output' = [written |-> TRUE, table |-> df, columns |-> columns]
    /\ summary' = [written |-> TRUE, report |-> generate_summary(Len(ids), total_success, total_fail)]
    /\ main' = "done"
    /\ UNCHANGED <<args, infile, ids, std_table, df, columns, id_batches, row_map, kind, i, futures, cache, requests, total_success, total_fail>>

FinishDryRun ==
    /\ main = "collect"
    /\ AllCompleted(futures)
    /\ args.dry_run
    /\ main' = "done"
    /\ UNCHANGED <<args, infile, ids, std_table, df, columns, id_batches, row_map, kind, i, futures, cache, requests, total_success, total_fail, output, summary>>

\* every batch holds at least one row
MaxFutures == MaxRows
Next ==
    \/ ReadTable
    \/ Normalize
    \/ PoolRaises
    \/ RangeRaises
    \/ SubmitBatch
    \/ NextKind
    \/ \E b \in 1..MaxFutures : RunTask(b)
    \/ \E b \in 1..MaxFutures : StartDryRun(b)
    \/ \E b \in 1..MaxFutures : StartCacheHit(b)
    \/ \E b \in 1..MaxFutures : StartRequest(b)
    \/ \E b \in 1..MaxFutures : Respond(b)
    \/ \E b \in 1..MaxFutures : Raise(b)
    \/ \E b \in 1..MaxFutures : MergeRow(b)
    \/ \E b \in 1..MaxFutures : ErrorRow(b)
    \/ \E b \in 1..MaxFutures : CreateColumn(b)
    \/ \E b \in 1..MaxFutures : Collect(b)
    \/ WriteOutput
    \/ FinishDryRun

Spec == Init /\ [][Next]_vars

\* Some thread that can take a step takes one: the threads are scheduled and a
\* remote call returns or raises.  The runs are those on the tables of two of the
\* rows: one that gives an identifier either way, one that gives none.
FairRows == {RowRs, RowGarbage}
FairInit == Init /\ \A r \in DOMAIN infile : infile[r] \in FairRows
FairSpec == FairInit /\ [][Next]_vars /\ WF_vars(Next)

\* The runs on the tables of those two rows and on a table of three rows, two
\* identifiers of one kind and one of the other; a table of more than MaxFutures
\* rows is cut with the largest batch size, which gives a batch of two rows next to
\* a batch of one.
WideTable == <<RowColon, RowUnderscore, RowRs>>
PartialTables == {t \in Tables : \A r \in DOMAIN t : t[r] \in FairRows} \cup {WideTable}
PartialInit == InitWith(PartialTables) /\ (Len(infile) <= MaxFutures \/ args.BATCH = MaxBatch)
PartialSpec == PartialInit /\ [][Next]_vars

\* ------------------------------------------------- process_batch run alone
\* The loop at lines 178-186 from row j on, run without interruption: the table
\* and the number of rows merged before get_result_info raised, if it did.
RECURSIVE MergeFrom(_, _, _)
MergeFrom(table, f, j) ==
    IF j = Len(f.batch) THEN [table |-> table, raised |-> FALSE, merged |-> j]
    ELSE LET info == get_result_info(f.batch[j + 1], f.results)
         IN IF info.raised THEN [table |-> table, raised |-> TRUE, merged |-> j]
            ELSE MergeFrom(WriteMerged(table, RowIdx(f.batch_rows, j), info), f, j + 1)

\* The loop at lines 189-193 from row k on.
RECURSIVE ErrorFrom(_, _, _)
ErrorFrom(table, f, k) ==
    IF k = Len(f.batch_rows) THEN table
    ELSE ErrorFrom(WriteError(table, ErrorRowIdx(f.batch_rows, k), args.THRESHOLD), f, k + 1)

\* process_batch on a table no other task touches, for the outcome the task's
\* call had: the call raised (f.exc = "AgvdException") or returned f.results.
RunBatch(table, f) ==
    IF f.exc = "AgvdException"
    THEN [table |-> ErrorFrom(table, f, 0), success |-> 0, fail |-> Len(f.batch_rows)]
    ELSE LET m == MergeFrom(table, f, 0)
         IN IF m.raised
            THEN [table |-> ErrorFrom(m.table, f, 0), success |-> m.merged, fail |-> Len(f.batch_rows)]
            ELSE [table |-> m.table, success |-> m.merged, fail |-> 0]

\* The table as normalisation leaves it: the rows in row_map empty, the others
\* marked INVALID.
Normalized == [r \in 0..(Len(ids) - 1) |-> IF \E t \in DOMAIN row_map : \E k \in DOMAIN row_map[t] : row_map[t][k] = r THEN EmptyRow ELSE OnInvalid([df |-> [q \in 0..(Len(ids) - 1) |-> EmptyRow], invalid |-> FALSE], r, ids[r + 1]).df[r]]

\* The tasks run one after the other in submission order (lines 196-209 with one
\* worker and as_completed in submission order).
RECURSIVE RunInOrder(_, _)
RunInOrder(fs, n) ==
    IF n = 0 THEN [table |-> Normalized, success |-> 0, fail |-> 0]
    ELSE LET prev == RunInOrder(fs, n - 1)
             one == RunBatch(prev.table, fs[n])
         IN [table |-> one.table, success |-> prev.success + one.success, fail |-> prev.fail + one.fail]

\* ------------------------------------------------------------------ claims
Rows == 0..(Len(ids) - 1)
ValidRow(r) == StandardizedIds[ids[r + 1]].ok
\* Row r is in row_map: normalisation accepted its identifier.
Planned(r) == \E t \in DOMAIN row_map : \E k \in DOMAIN row_map[t] : row_map[t][k] = r
\* id_batches and row_map are what standardize_variant_id gives row by row: a row
\* that normalises is once in the lists of its kind, with its normalised
\* identifier, and in no other list; a row that does not is in none; rows are in
\* table order.
PlanMatchesTable ==
    /\ \A r \in Rows :
        LET std == StandardizedIds[ids[r + 1]]
        IN \A t \in DOMAIN row_map :
            IF std.ok /\ std.id_type = t
            THEN Cardinality({k \in DOMAIN row_map[t] : row_map[t][k] = r /\ id_batches[t][k] = std.std_id}) = 1
                 /\ Cardinality({k \in DOMAIN row_map[t] : row_map[t][k] = r}) = 1
            ELSE \A k \in DOMAIN row_map[t] : row_map[t][k] # r
    /\ \A t \in DOMAIN row_map :
        /\ Len(row_map[t]) = Len(id_batches[t])
        /\ \A k, m \in DOMAIN row_map[t] : k < m => row_map[t][k] < row_map[t][m]
\* Normalisation is over and nothing was submitted yet.
JustNormalized == main = "dispatch" /\ futures = <<>>
\* The plan and the input are never changed after normalisation.
PlanStable == main \notin {"read", "normalize"} => (id_batches' = id_batches /\ row_map' = row_map /\ ids' = ids /\ args' = args)
\* The places <<task, position>> where row r was planned.
Holders(r) == {bk \in (DOMAIN futures) \X (1..MaxRows) : bk[2] \in DOMAIN futures[bk[1]].batch_rows /\ futures[bk[1]].batch_rows[bk[2]] = r}
RowsOf(f) == {f.batch_rows[k] : k \in DOMAIN f.batch_rows}
ErrorRowCells == [THRESHOLD |-> RequestedThreshold, AGVDCUTOFF |-> "ERROR", African_MAF |-> NaN, MAF |-> [c \in ClusterNames |-> NaN]]
NoMatchCells == [THRESHOLD |-> NaN, AGVDCUTOFF |-> "NO MATCH", African_MAF |-> NaN, MAF |-> [c \in ClusterNames |-> NaN]]
InvalidCells == [EmptyRow EXCEPT !.AGVDCUTOFF = "INVALID"]
WellFormedResponse(results) == \A k \in DOMAIN results : "clusters" \in DOMAIN results[k] => \A c \in DOMAIN results[k].clusters : {"name", "maf"} \subseteq DOMAIN results[k].clusters[c]
\* The records of a response whose variantID or rsID is x.
RecordsOf(results, x) == {k \in DOMAIN results : ("variantID" \in DOMAIN results[k] /\ results[k].variantID = x) \/ ("rsID" \in DOMAIN results[k] /\ results[k].rsID = x)}
\* What the claim has the rows of a batch receive for position p of the batch, as
\* <<column, value>> pairs in column order: the fields of the first record for the
\* identifier, or NO MATCH with no threshold and no frequency.
ExpectedCells(f, p) ==
    LET found == RecordsOf(f.results, f.batch[p])
    IN IF found = {} THEN << <<"THRESHOLD", NaN>>, <<"AGVDCUTOFF", "NO MATCH">>, <<"African_MAF", NaN>> >>
       ELSE LET rec == f.results[CHOOSE m \in found : \A n \in found : m <= n]
            IN << <<"THRESHOLD", rec.usedThreshold>>,
                  <<"AGVDCUTOFF", IF "agvdThresholdStatus" \in DOMAIN rec THEN rec.agvdThresholdStatus ELSE "UNKNOWN">>,
                  <<"African_MAF", rec.mafThreshold>> >>
               \o (IF "clusters" \in DOMAIN rec THEN [n \in 1..Len(rec.clusters) |-> <<ClusterColumn(rec.clusters[n].name), rec.clusters[n].maf>>] ELSE <<>>)
\* The row these cells make, the columns without a cell left empty.
ExpectedRow(f, p) ==
    LET cells == ExpectedCells(f, p)
        cell(col) == IF \E n \in DOMAIN cells : cells[n][1] = col THEN cells[CHOOSE n \in DOMAIN cells : cells[n][1] = col][2] ELSE NaN
    IN [THRESHOLD |-> cell("THRESHOLD"), AGVDCUTOFF |-> cell("AGVDCUTOFF"), African_MAF |-> cell("African_MAF"), MAF |-> [c \in ClusterNames |-> cell(ClusterColumn(c))]]

\* C1 (failure isolation): at the end of a run in which the remote call of some
\* task raised, every task has finished and was collected, the rows of each task
\* carry exactly what that task alone gives them for its own outcome (the error
\* cells for a task whose call raised), and a row of no task is not ERROR.
C1_FailureIsolation ==
    (main = "done" /\ ~args.dry_run /\ \E b \in DOMAIN futures : futures[b].exc = "AgvdException") =>
        /\ \A b \in DOMAIN futures : futures[b].pc = "done" /\ futures[b].yielded
        /\ \A b \in DOMAIN futures : \A r \in RowsOf(futures[b]) : df[r] = RunBatch(Normalized, futures[b]).table[r]
        /\ \A r \in Rows : Holders(r) = {} => df[r].AGVDCUTOFF # "ERROR"

\* C2 (batch atomicity): with one worker, so that no two tasks interleave, the rows
\* of a finished task (not a dry run) are either all merged, or all carry exactly
\* the error cells with no value in any MAF column.
C2_BatchAtomic ==
    \A b \in DOMAIN futures :
        LET f == futures[b] IN
        (f.pc = "done" /\ ~args.dry_run /\ args.threads = 1) =>
            \/ \A r \in RowsOf(f) : df[r].AGVDCUTOFF # "ERROR"
            \/ \A r \in RowsOf(f) : df[r] = ErrorRowCells

\* C3 (planning is a partition): normalisation leaves in id_batches and row_map
\* exactly the rows that normalise, each once, under its kind, with its normalised
\* identifier, and the plan never changes afterwards; every task holds between 1
\* and BATCH identifiers of its kind, paired position by position with their row
\* indices in table order; no row is planned in two tasks; and once dispatch is over
\* (BATCH >= 1) every row of the plan is in exactly one task.
C3_State ==
    /\ JustNormalized => PlanMatchesTable
    /\ \A b \in DOMAIN futures :
        LET f == futures[b] IN
        /\ Len(f.batch) = Len(f.batch_rows)
        /\ 1 <= Len(f.batch) /\ Len(f.batch) <= args.BATCH
        /\ \A k \in DOMAIN f.batch_rows :
            /\ f.batch_rows[k] \in Rows
            /\ \E m \in DOMAIN row_map[f.id_type] : row_map[f.id_type][m] = f.batch_rows[k] /\ id_batches[f.id_type][m] = f.batch[k]
            /\ \A m \in DOMAIN f.batch_rows : k < m => f.batch_rows[k] < f.batch_rows[m]
    /\ \A r \in Rows : Cardinality(Holders(r)) <= 1
    /\ (main \in {"collect", "done"} /\ args.BATCH >= 1) => \A r \in Rows : Planned(r) => Cardinality(Holders(r)) = 1
C3_Partition == [](C3_State) /\ [][PlanStable]_vars
\* Dispatch is over and one kind was cut into two batches.
C3_Witness ==
    /\ main = "collect" /\ args.BATCH = 1
    /\ Len(futures) = 2 /\ futures[1].id_type = futures[2].id_type
    /\ futures[1].batch_rows = <<0>> /\ futures[2].batch_rows = <<1>>

\* C4 (partial match): at the end of a run, for every task whose call returned
\* well-formed records for some but not all of its identifiers, each row whose
\* identifier has a record carries that record's usedThreshold, status (UNKNOWN
\* without one), mafThreshold and cluster values, each row without a record carries
\* NO MATCH and no threshold or frequency, and the task reported (batch size, 0).
C4_PartialMatch ==
    \A b \in DOMAIN futures :
        LET f == futures[b] IN
        (/\ main = "done" /\ ~args.dry_run
         /\ f.exc = "None" /\ WellFormedResponse(f.results)
         /\ \E p \in DOMAIN f.batch : RecordsOf(f.results, f.batch[p]) # {}
         /\ \E p \in DOMAIN f.batch : RecordsOf(f.results, f.batch[p]) = {}) =>
            /\ f.local_success = Len(f.batch) /\ f.local_fail = 0
            /\ \A p \in DOMAIN f.batch : df[f.batch_rows[p]] = ExpectedRow(f, p)

\* C5 (invalid identifiers): normalisation leaves out of row_map exactly the rows
\* whose identifier does not normalise and marks them INVALID, before anything is
\* submitted; from then on such a row keeps INVALID as its only cell, is in no task
\* and INVALID in the written output; every request carries the identifiers of a
\* planned task only; and the run still processes every other row: at its end each
\* planned row is in a task that finished.
C5_State ==
    /\ JustNormalized => \A r \in Rows : (ValidRow(r) <=> Planned(r)) /\ df[r] = (IF ValidRow(r) THEN EmptyRow ELSE InvalidCells)
    /\ main \notin {"read", "normalize"} => \A r \in Rows : ~Planned(r) =>
        /\ df[r] = InvalidCells
        /\ Holders(r) = {}
        /\ output.written => output.table[r] = InvalidCells
    /\ main \in {"read", "normalize"} => futures = <<>>
    /\ \A q \in requests : \E b \in DOMAIN futures : futures[b].batch = q.identifiers /\ futures[b].id_type = q.id_type
    /\ (main = "done" /\ args.BATCH >= 1) => \A r \in Rows : Planned(r) => \E bk \in Holders(r) : futures[bk[1]].pc = "done" /\ futures[bk[1]].yielded
C5_InvalidNeverDispatched == [](C5_State) /\ [][PlanStable]_vars
\* A finished run whose table has an INVALID row, of a token that does not
\* normalise, next to a merged one.
C5_Witness ==
    /\ main = "done" /\ output.written /\ requests # {}
    /\ \E r, q \in Rows : df[r].AGVDCUTOFF = "INVALID" /\ df[q].AGVDCUTOFF = "PASS" /\ ids[r + 1] = TokGarbage /\ ~ValidRow(r) /\ ValidRow(q)

\* C6 (batch size validated at startup): with BATCH <= 0 the run never completes
\* and writes neither the output nor the summary.
C6_BatchSizeRejected ==
    args.BATCH <= 0 => (main # "done" /\ ~output.written /\ ~summary.written)

\* C7 (the orchestrator waits): the output, the summary and the end of the run are
\* reached only when every submitted task has finished (merged or ERROR) and was
\* collected; a run that ends with an error has submitted no task; and the run
\* eventually ends, so that every submitted task eventually finishes.
C7_WaitsForAll ==
    /\ []((output.written \/ summary.written \/ main = "done") => \A b \in DOMAIN futures : futures[b].pc = "done" /\ futures[b].yielded)
    /\ [](main = "crashed" => futures = <<>>)
    /\ <>(main \in {"done", "crashed"})
\* The output was written after two tasks, one of which failed.
C7_Witness ==
    /\ output.written /\ summary.written
    /\ Len(futures) = 2
    /\ futures[1].exc = "AgvdException" /\ futures[2].exc = "None" /\ futures[2].local_success = 1

\* C8 (order independence): at the end of a run the table, the written output and
\* the totals are those of the tasks run one after the other in submission order
\* with the same outcomes, whatever the interleaving was.
C8_OrderIndependent ==
    (main = "done" /\ ~args.dry_run) =>
        LET seq == RunInOrder(futures, Len(futures))
        IN /\ df = seq.table
           /\ output.table = seq.table
           /\ total_success = seq.success /\ total_fail = seq.fail
           /\ summary.report.successful = seq.success /\ summary.report.failed = seq.fail

\* C9 (dry run): with dry_run set no request reaches the endpoint and nothing is
\* cached, every task reports (0, 0) and returns without a call, the totals stay 0,
\* and no row gets a cell written by a task: a row is empty, or INVALID when it does
\* not normalise; no column is added for a task.
C9_DryRun ==
    args.dry_run =>
        /\ requests = {} /\ cache = {}
        /\ total_success = 0 /\ total_fail = 0
        /\ \A b \in DOMAIN futures : futures[b].local_success = 0 /\ futures[b].local_fail = 0 /\ futures[b].pc \in {"queued", "taken", "done"}
        /\ \A r \in DOMAIN df : df[r] \in {EmptyRow, InvalidCells} /\ (Planned(r) => df[r] = EmptyRow)
        /\ \A k \in DOMAIN columns : columns[k] \in {"__variant_id__", "AGVDCUTOFF"}
        /\ ~output.written /\ ~summary.written
\* A dry run with the cache flag ended after its tasks ran.
C9_Witness ==
    /\ args.dry_run /\ args.cache /\ main = "done"
    /\ Len(futures) = 2 /\ futures[1].pc = "done" /\ futures[2].pc = "done"

\* C10 (summary agrees with the rows): with one worker, so that no two tasks
\* interleave, after a completed run (not a dry run, BATCH >= 1) every task
\* reported (batch size, 0) or (0, batch size), failed is the number of ERROR rows,
\* successful the number of rows neither ERROR nor INVALID, and successful + failed
\* + INVALID rows = total.
C10_SummaryAgrees ==
    (main = "done" /\ ~args.dry_run /\ args.BATCH >= 1 /\ args.threads = 1) =>
        /\ \A b \in DOMAIN futures : <<futures[b].local_success, futures[b].local_fail>> \in {<<Len(futures[b].batch), 0>>, <<0, Len(futures[b].batch)>>}
        /\ summary.report.failed = Cardinality({r \in Rows : df[r].AGVDCUTOFF = "ERROR"})
        /\ summary.report.successful = Cardinality({r \in Rows : df[r].AGVDCUTOFF \notin {"ERROR", "INVALID"}})
        /\ summary.report.successful + summary.report.failed + Cardinality({r \in Rows : df[r].AGVDCUTOFF = "INVALID"}) = summary.report.total
        /\ summary.report.successful + summary.report.failed <= summary.report.total

====
